---- MODULE Spec2Model ----
(***************************************************************************)
(* The luigi pipeline of src/pipe.py: DownloadDataset ->                   *)
(* ExtractAndProcessFiles -> TrimProbesTable -> DeleteOriginalData, over a *)
(* filesystem of directories and regular files.                            *)
(*                                                                         *)
(* A file or directory name is a sequence of string tokens                 *)
(* ("GSM1.txt.gz" is <<"GSM","1",".txt",".gz">>), so that the suffix tests, *)
(* os.path.splitext and str.replace of the code are computed on it; a path *)
(* is a sequence of names.                                                 *)
(***************************************************************************)
EXTENDS Naturals, Sequences, FiniteSets, TLC

\* Bound: the number of members of the fetched archive.
MaxMembers == 2

\* Bound: the number of builds in one behaviour.
MaxBuilds == 2

----------------------------------------------------------------------------
\* Names and paths

dataset_id == "GSE68849"

Last(s) == s[Len(s)]
Front(s) == SubSeq(s, 1, Len(s) - 1)

\* str.endswith on token sequences
EndsWith(name, suffix) ==
    /\ Len(name) >= Len(suffix)
    /\ SubSeq(name, Len(name) - Len(suffix) + 1, Len(name)) = suffix

\* os.path.splitext(name)[0]: the name without its last extension
SplitExtRoot(name) ==
    IF Len(name) > 1 /\ Last(name) \in {".gz", ".txt", ".tsv", ".tar", ".done"}
    THEN Front(name) ELSE name

\* os.path.join(dir, name), os.path.dirname, os.path.basename
Join(dir, name) == Append(dir, name)
DirName(path) == Front(path)
BaseName(path) == Last(path)

IsPrefix(p, q) == Len(p) <= Len(q) /\ SubSeq(q, 1, Len(p)) = p
IsUnder(root, p) == Len(root) < Len(p) /\ IsPrefix(root, p)

\* The default values of the luigi parameters
DefaultDownloadDir == << <<"data">> >>
DefaultProcessedDir == << <<"processed_data">> >>
DefaultTrimmedDir == << <<"trimmed_probes">> >>
\* The value of a parameter the task class does not declare
NoDir == << >>

----------------------------------------------------------------------------
\* The filesystem: fs.dirs is the set of existing directories, fs.files maps
\* each existing regular file to its content.

EmptyFS == [dirs |-> {}, files |-> << >>]

IsFile(fs, p) == p \in DOMAIN fs.files
IsDir(fs, p) == p \in fs.dirs
Exists(fs, p) == IsFile(fs, p) \/ IsDir(fs, p)

Prefixes(p) == {SubSeq(p, 1, k) : k \in 1..Len(p)}

\* os.makedirs(p, exist_ok=True)
MakeDirs(fs, p) == [fs EXCEPT !.dirs = @ \cup Prefixes(p)]

\* open(p, 'w').write(content): the parent directory exists
WriteFile(fs, p, content) ==
    [fs EXCEPT !.files = [q \in DOMAIN @ \cup {p} |-> IF q = p THEN content ELSE @[q]]]

\* The entries os.walk(root) lists: every directory and file below root
\* (nothing when root is not a directory).
WalkDirs(fs, root) == IF IsDir(fs, root) THEN {d \in fs.dirs : IsUnder(root, d)} ELSE {}
WalkFiles(fs, root) ==
    IF IsDir(fs, root) THEN {f \in DOMAIN fs.files : IsUnder(root, f)} ELSE {}

HasChild(fs, d) ==
    \E p \in fs.dirs \cup DOMAIN fs.files : Len(p) = Len(d) + 1 /\ IsPrefix(d, p)

\* Several files written at once: m maps each path to its content
WriteFiles(fs, m) ==
    [fs EXCEPT !.files =
        [q \in DOMAIN @ \cup DOMAIN m |-> IF q \in DOMAIN m THEN m[q] ELSE @[q]]]

----------------------------------------------------------------------------
\* The task classes. A task is its class and its parameters (dataset_id is
\* the same in every task and is left out); a parameter a class does not
\* declare is NoDir.

DownloadDataset(download_dir) ==
    [cls |-> "DownloadDataset", download_dir |-> download_dir,
     processed_data_dir |-> NoDir, output_dir |-> NoDir]

ExtractAndProcessFiles(download_dir, output_dir) ==
    [cls |-> "ExtractAndProcessFiles", download_dir |-> download_dir,
     processed_data_dir |-> NoDir, output_dir |-> output_dir]

TrimProbesTable(download_dir, processed_data_dir, output_dir) ==
    [cls |-> "TrimProbesTable", download_dir |-> download_dir,
     processed_data_dir |-> processed_data_dir, output_dir |-> output_dir]

DeleteOriginalData(download_dir, processed_data_dir, output_dir) ==
    [cls |-> "DeleteOriginalData", download_dir |-> download_dir,
     processed_data_dir |-> processed_data_dir, output_dir |-> output_dir]

Classes ==
    {"DownloadDataset", "ExtractAndProcessFiles", "TrimProbesTable", "DeleteOriginalData"}

\* requires(): the upstream task each task constructs. Only dataset_id is
\* passed on by TrimProbesTable and DeleteOriginalData, so their upstream
\* tasks take the default directories.
ExtractAndProcessFiles_requires(t) == DownloadDataset(t.download_dir)
TrimProbesTable_requires(t) ==
    ExtractAndProcessFiles(DefaultDownloadDir, DefaultProcessedDir)
DeleteOriginalData_requires(t) ==
    TrimProbesTable(DefaultDownloadDir, DefaultProcessedDir, DefaultTrimmedDir)

\* The set of tasks t requires (empty for DownloadDataset)
Requires(t) ==
    CASE t.cls = "ExtractAndProcessFiles" -> {ExtractAndProcessFiles_requires(t)}
      [] t.cls = "TrimProbesTable" -> {TrimProbesTable_requires(t)}
      [] t.cls = "DeleteOriginalData" -> {DeleteOriginalData_requires(t)}
      [] OTHER -> {}

\* output(): the path of each task's Output Target
DownloadDataset_output(t) == Join(t.download_dir, <<dataset_id, "_RAW", ".tar">>)
ExtractAndProcessFiles_output(t) == t.output_dir
TrimProbesTable_output(t) == Join(t.output_dir, <<"Probes", "_trimmed", ".tsv">>)
DeleteOriginalData_output(t) ==
    Join(t.processed_data_dir, <<"delete_original_data", ".done">>)

Output(t) ==
    CASE t.cls = "DownloadDataset" -> DownloadDataset_output(t)
      [] t.cls = "ExtractAndProcessFiles" -> ExtractAndProcessFiles_output(t)
      [] t.cls = "TrimProbesTable" -> TrimProbesTable_output(t)
      [] t.cls = "DeleteOriginalData" -> DeleteOriginalData_output(t)

\* A task is complete iff its Output Target exists (a LocalTarget: the path
\* exists, as a file or as a directory).
Complete(fs, t) == Exists(fs, Output(t))

----------------------------------------------------------------------------
\* The archive. Its content is the sequence of its members' kinds:
\*   "probes"  a .txt.gz member whose text holds the section Probes
\*   "plain"   a .txt.gz member whose text holds the section Controls only
\*   "other"   a member that is not a .txt.gz file
MemberKinds == {"probes", "plain", "other"}

Archives == [1..MaxMembers -> MemberKinds]

\* tar.getmembers()
GetMembers(content) ==
    [i \in 1..Len(content) |->
        [name |-> IF content[i] = "other"
                  THEN <<"GSM", ToString(i), ".md">>
                  ELSE <<"GSM", ToString(i), ".txt", ".gz">>,
         isfile |-> TRUE,
         text |-> <<"text", content[i], ToString(i)>>]]

\* The section keys of a decompressed file
SectionKeys(text) ==
    CASE text[2] = "probes" -> {"Probes"}
      [] text[2] = "plain" -> {"Controls"}
      [] OTHER -> {}

----------------------------------------------------------------------------
\* The run() bodies. Each takes the filesystem, the task and the failures
\* the environment raises during the run, and gives the filesystem it
\* leaves and how it ended: outcome "Done" (the body reached its end) or
\* "Failed" (an exception left it), with the error raised.

Result(fs, outcome, err) == [fs |-> fs, outcome |-> outcome, err |-> err]

\* DownloadDataset.run: wget.download either writes the whole archive to
\* output().path or raises and writes nothing there.
DownloadDataset_run(fs, t, remote, ok) ==
    LET fs1 == MakeDirs(fs, t.download_dir)
    IN  IF ok
        THEN Result(WriteFile(fs1, DownloadDataset_output(t), remote), "Done", "")
        ELSE Result(fs1, "Failed", "FetchFailure")

\* ExtractAndProcessFiles.process_file: one table per section key, written
\* beside the decompressed file as <stem>_<key>.tsv
process_file(fs, file_path) ==
    LET stem == SplitExtRoot(BaseName(file_path))
        text == fs.files[file_path]
        table(key) == Join(DirName(file_path), stem \o <<"_" \o key, ".tsv">>)
        dfs == SectionKeys(text)
    IN  WriteFiles(fs, [p \in {table(key) : key \in dfs} |->
                           LET key == CHOOSE k \in dfs : table(k) = p
                           IN  <<"table", key, text[3]>>])

\* The failures an ExtractAndProcessFiles run can meet: none, tarfile.open
\* raising ("open"), or at member number `at` the decompression raising
\* ("gz") or process_file raising ("parse").
ExtractFailures(n) ==
    {[at |-> 0, how |-> "none"], [at |-> 0, how |-> "open"]}
        \cup {[at |-> i, how |-> h] : i \in 1..n, h \in {"gz", "parse"}}

\* The loop over tar.getmembers(), from member number i on
RECURSIVE ExtractMembers(_, _, _, _, _)
ExtractMembers(fs, t, members, i, fail) ==
    IF i > Len(members) THEN Result(fs, "Done", "")
    ELSE LET member == members[i] IN
         IF ~(member.isfile /\ EndsWith(member.name, <<".txt", ".gz">>))
         THEN ExtractMembers(fs, t, members, i + 1, fail)
         ELSE LET member_name == SplitExtRoot(member.name)
                  extraction_dir == Join(t.output_dir, member_name)
                  fs1 == MakeDirs(fs, extraction_dir)
                  output_file_path == Join(extraction_dir, member_name)
                  fs2 == WriteFile(fs1, output_file_path, member.text)
              IN  IF fail.at = i /\ fail.how = "gz"
                  THEN Result(fs1, "Failed", "DecodeFailure")
                  ELSE IF fail.at = i /\ fail.how = "parse"
                  THEN Result(fs2, "Failed", "DecodeFailure")
                  ELSE ExtractMembers(process_file(fs2, output_file_path),
                                      t, members, i + 1, fail)

\* ExtractAndProcessFiles.run
ExtractAndProcessFiles_run(fs, t, fail) ==
    LET fs1 == MakeDirs(fs, t.output_dir)
        tar_path == DownloadDataset_output(ExtractAndProcessFiles_requires(t))
    IN  IF ~IsFile(fs1, tar_path) THEN Result(fs1, "Failed", "MissingInput")
        ELSE IF fail.how = "open" THEN Result(fs1, "Failed", "DecodeFailure")
        ELSE ExtractMembers(fs1, t, GetMembers(fs1.files[tar_path]), 1, fail)

\* Bound: the number of deletions that fail in one DeleteOriginalData run.
MaxFailures == 2

\* All the orders in which os.walk can list the files of S
Perms(S) ==
    {o \in [1..Cardinality(S) -> S] : \A x \in S : \E i \in DOMAIN o : o[i] = x}

\* str.replace('_Probes.tsv', '_trimmed_Probes.tsv') on a file name
RECURSIVE ReplaceProbes(_)
ReplaceProbes(name) ==
    IF Len(name) < 2 THEN name
    ELSE IF SubSeq(name, 1, 2) = <<"_Probes", ".tsv">>
    THEN <<"_trimmed", "_Probes", ".tsv">> \o ReplaceProbes(SubSeq(name, 3, Len(name)))
    ELSE <<name[1]>> \o ReplaceProbes(Tail(name))

\* The files TrimProbesTable.run discovers under processed_data_dir
ProbesFiles(fs, t) ==
    {f \in WalkFiles(fs, t.processed_data_dir) :
        EndsWith(BaseName(f), <<"_Probes", ".tsv">>)}

\* Where the trimmed copy of a discovered file is written
TrimmedPath(t, probes_file_path) ==
    Join(DirName(TrimProbesTable_output(t)), ReplaceProbes(BaseName(probes_file_path)))

\* read_csv, drop(columns=...), to_csv on a table's content
TrimContent(content) == <<"trimmed">> \o Tail(content)

MarkerText == <<"Trimmed Probes processing completed.\n">>

\* Mutant of TrimProbesTable_run: the loop catches the error of a file and
\* goes on with the next one
TrimProbesTable_run_keepgoing(fs, t, order, failAt) ==
    LET fs1 == MakeDirs(fs, t.output_dir)
        probes_files == ProbesFiles(fs1, t)
        written == {order[k] : k \in DOMAIN order \ {failAt}}
        fs2 == WriteFiles(fs1, [p \in {TrimmedPath(t, f) : f \in written} |->
                   LET f == CHOOSE g \in written : TrimmedPath(t, g) = p
                   IN  TrimContent(fs1.files[f])])
    IN  IF probes_files = {} THEN Result(fs1, "Failed", "NoInputFound")
        ELSE Result(WriteFile(fs2, TrimProbesTable_output(t), MarkerText), "Done", "")

\* Mutant of TrimProbesTable_run: no test for an empty list of discovered
\* files
TrimProbesTable_run_nocheck(fs, t, order, failAt) ==
    LET fs1 == MakeDirs(fs, t.output_dir)
        upto == IF failAt = 0 THEN Len(order) ELSE failAt - 1
        written == {order[k] : k \in 1..upto}
        fs2 == WriteFiles(fs1, [p \in {TrimmedPath(t, f) : f \in written} |->
                   LET f == CHOOSE g \in written : TrimmedPath(t, g) = p
                   IN  TrimContent(fs1.files[f])])
    IN  IF failAt # 0 THEN Result(fs2, "Failed", "DecodeFailure")
        ELSE Result(WriteFile(fs2, TrimProbesTable_output(t), MarkerText), "Done", "")

\* TrimProbesTable.run: `order` is the order in which the discovered files
\* are processed, failAt the position of the file whose loading or writing
\* raises (0: none does).
TrimProbesTable_run(fs, t, order, failAt) ==
    LET fs1 == MakeDirs(fs, t.output_dir)
        probes_files == ProbesFiles(fs1, t)
        upto == IF failAt = 0 THEN Len(order) ELSE failAt - 1
        written == {order[k] : k \in 1..upto}
        fs2 == WriteFiles(fs1, [p \in {TrimmedPath(t, f) : f \in written} |->
                   LET f == CHOOSE g \in written : TrimmedPath(t, g) = p
                   IN  TrimContent(fs1.files[f])])
    IN  IF probes_files = {} THEN Result(fs1, "Failed", "NoInputFound")
        ELSE IF failAt # 0 THEN Result(fs2, "Failed", "DecodeFailure")
        ELSE Result(WriteFile(fs2, TrimProbesTable_output(t), MarkerText), "Done", "")

\* The second loop of DeleteOriginalData.run: os.walk(topdown=False) hands
\* out the deepest directories first; os.rmdir removes a directory only
\* when it is empty and the removal does not fail.
RECURSIVE RmdirBottomUp(_, _, _, _)
RmdirBottomUp(fs, root, depth, failing) ==
    IF depth <= Len(root) THEN fs
    ELSE LET level == {d \in WalkDirs(fs, root) : Len(d) = depth}
             gone == {d \in level : ~HasChild(fs, d) /\ d \notin failing}
         IN  RmdirBottomUp([fs EXCEPT !.dirs = @ \ gone], root, depth - 1, failing)

Deepest(fs, root) ==
    IF WalkDirs(fs, root) = {} THEN Len(root)
    ELSE LET d == CHOOSE x \in WalkDirs(fs, root) :
                      \A y \in WalkDirs(fs, root) : Len(y) <= Len(x)
         IN  Len(d)

\* The removal of the root directory that ends DeleteOriginalData.run
RmdirRoot(fs, root, failing) ==
    IF IsDir(fs, root) /\ ~HasChild(fs, root) /\ root \notin failing
    THEN [fs EXCEPT !.dirs = @ \ {root}]
    ELSE fs

\* Mutant of DeleteOriginalData_run: the first loop removes only the files
\* that lie directly in processed_data_dir
DeleteOriginalData_run_shallow(fs, t, failing) ==
    LET root == t.processed_data_dir
        original_items == WalkDirs(fs, root) \cup WalkFiles(fs, root)
        removed == {f \in original_items :
                       IsFile(fs, f) /\ Len(f) = Len(root) + 1 /\ f \notin failing}
        fs1 == [fs EXCEPT !.files = [q \in DOMAIN @ \ removed |-> @[q]]]
        fs2 == RmdirBottomUp(fs1, root, Deepest(fs1, root), failing)
    IN  IF original_items = {} THEN Result(fs, "Done", "")
        ELSE Result(RmdirRoot(fs2, root, failing), "Done", "")

\* Mutant of DeleteOriginalData_run: an os.rmdir that raises is not caught
\* and ends the run
DeleteOriginalData_run_uncaught(fs, t, failing) ==
    LET root == t.processed_data_dir
        original_items == WalkDirs(fs, root) \cup WalkFiles(fs, root)
        removed == {f \in original_items : IsFile(fs, f) /\ f \notin failing}
        fs1 == [fs EXCEPT !.files = [q \in DOMAIN @ \ removed |-> @[q]]]
        fs2 == RmdirBottomUp(fs1, root, Deepest(fs1, root), failing)
    IN  IF original_items = {} THEN Result(fs, "Done", "")
        ELSE IF \E d \in failing : IsDir(fs, d) THEN Result(fs1, "Failed", "CleanupFailure")
        ELSE Result(RmdirRoot(fs2, root, failing), "Done", "")

\* Mutant of DeleteOriginalData_attempts: the second walk goes top-down,
\* the root directory first
DeleteOriginalData_attempts_topdown(fs, t) ==
    LET root == t.processed_data_dir
        original_items == WalkDirs(fs, root) \cup WalkFiles(fs, root)
        deepest == Deepest(fs, root)
        levels == [i \in 1..(deepest - Len(root)) |->
                      {d \in WalkDirs(fs, root) : Len(d) = Len(root) + i}]
    IN  IF original_items = {} THEN << >>
        ELSE <<{f \in original_items : IsFile(fs, f)}>> \o <<{root}>> \o levels

\* The deletions DeleteOriginalData.run attempts, in order, as a sequence
\* of sets: the files of original_items, then the sub-directories from the
\* deepest level up (os.walk with topdown=False hands a directory over only
\* after everything below it), then processed_data_dir itself. Nothing is
\* attempted when original_items is empty.
DeleteOriginalData_attempts(fs, t) ==
    LET root == t.processed_data_dir
        original_items == WalkDirs(fs, root) \cup WalkFiles(fs, root)
        deepest == Deepest(fs, root)
        levels == [i \in 1..(deepest - Len(root)) |->
                      {d \in WalkDirs(fs, root) : Len(d) = deepest - i + 1}]
    IN  IF original_items = {} THEN << >>
        ELSE <<{f \in original_items : IsFile(fs, f)}>> \o levels \o <<{root}>>

\* The attempts a made one after another: an os.remove succeeds unless the
\* path is failing, an os.rmdir succeeds unless the path is failing or the
\* directory still holds something; every failure is caught and logged
RECURSIVE ApplyAttempts(_, _, _)
ApplyAttempts(fs, a, failing) ==
    IF a = << >> THEN fs
    ELSE LET gone == {p \in a[1] : /\ p \notin failing
                                   /\ \/ IsFile(fs, p)
                                      \/ IsDir(fs, p) /\ ~HasChild(fs, p)}
             fs1 == [dirs |-> fs.dirs \ gone,
                     files |-> [q \in DOMAIN fs.files \ gone |-> fs.files[q]]]
         IN  ApplyAttempts(fs1, Tail(a), failing)

\* DeleteOriginalData.run: `failing` is the set of paths whose os.remove or
\* os.rmdir raises. No exception leaves the body.
DeleteOriginalData_run(fs, t, failing) ==
    Result(ApplyAttempts(fs, DeleteOriginalData_attempts(fs, t), failing), "Done", "")

\* The paths whose deletion a DeleteOriginalData run can attempt
Deletable(fs, t) ==
    WalkDirs(fs, t.processed_data_dir) \cup WalkFiles(fs, t.processed_data_dir)
        \cup {t.processed_data_dir}

----------------------------------------------------------------------------
\* The state

VARIABLES
    remote,   \* the content of the archive on the remote server
    fs,       \* the local filesystem
    req,      \* the task the current (or last) build was asked for
    status,   \* the state of each task class in the current build
    ran,      \* the classes whose body was started in the current build, in order
    fs0,      \* the filesystem when the current build started
    prev,     \* the request and the final statuses of the build before
    builds,   \* the number of builds started
    last,     \* the last run() that ended: task, filesystem before, failures, outcome
    ended,    \* the tasks whose body has reached its end at least once
    parse     \* the text handed to the parser and what was made of it

vars == <<remote, fs, req, status, ran, fs0, prev, builds, last, ended, parse>>

\* No text has been handed to the parser
NoParse == [pc |-> "none"]

NoTask ==
    [cls |-> "none", download_dir |-> NoDir, processed_data_dir |-> NoDir,
     output_dir |-> NoDir]

NoInput == [at |-> 0, how |-> "none", order |-> << >>, failAt |-> 0, failing |-> {}]

NoRun == [task |-> NoTask, pre |-> EmptyFS, inp |-> NoInput, outcome |-> "none", err |-> ""]

Unresolved == [c \in Classes |-> "Unresolved"]

\* The values the command line gives the directory parameters
DownloadDirs == {DefaultDownloadDir}
ProcessedDirs == {DefaultProcessedDir}
TrimmedDirs == {DefaultTrimmedDir}

\* The tasks a build can be asked for
Requestable ==
    {DownloadDataset(d) : d \in DownloadDirs}
    \cup {ExtractAndProcessFiles(d, o) : d \in DownloadDirs, o \in ProcessedDirs}
    \cup {TrimProbesTable(d, p, o) : d \in DownloadDirs, p \in ProcessedDirs, o \in TrimmedDirs}
    \cup {DeleteOriginalData(d, p, o) : d \in DownloadDirs, p \in ProcessedDirs, o \in TrimmedDirs}

\* The requested task and everything upstream of it
RECURSIVE Closure(_)
Closure(t) == {t} \cup UNION {Closure(u) : u \in Requires(t)}

InBuild(c) == \E t \in Closure(req) : t.cls = c
TaskFor(c) == CHOOSE t \in Closure(req) : t.cls = c

\* The classes of the tasks the task of class c requires
Deps(c) == {u.cls : u \in Requires(TaskFor(c))}

Failed == \E c \in Classes : status[c] = "Failed"

\* No build is in progress
BuildOver ==
    IF req = NoTask THEN TRUE ELSE status[req.cls] \in {"Skipped", "Done"} \/ Failed

Init ==
    /\ remote \in Archives
    /\ fs = EmptyFS
    /\ req = NoTask
    /\ status = Unresolved
    /\ ran = << >>
    /\ fs0 = EmptyFS
    /\ prev = [req |-> NoTask, status |-> Unresolved]
    /\ builds = 0
    /\ last = NoRun
    /\ ended = {}
    /\ parse = NoParse

----------------------------------------------------------------------------
\* The orchestrator (luigi.run): a build checks the requested task, then,
\* while a task is incomplete, the tasks it requires; it runs the incomplete
\* tasks upstream first, and stops at the first failure.

StartBuild(t) ==
    /\ BuildOver
    /\ builds < MaxBuilds
    /\ builds' = builds + 1
    /\ req' = t
    /\ status' = Unresolved
    /\ ran' = << >>
    /\ fs0' = fs
    /\ prev' = [req |-> req, status |-> status]
    /\ last' = NoRun
    /\ UNCHANGED <<remote, fs, ended, parse>>

\* Mutant of CheckResult: a task whose output exists is still rebuilt when
\* an output upstream of it is missing
CheckResult_upstream(fs_, t) ==
    IF Complete(fs_, t) /\ \A u \in Requires(t) : Complete(fs_, u)
    THEN "Skipped" ELSE "Pending"

\* What checking a task finds: Skipped when its Output Target exists already
CheckResult(fs_, t) == IF Complete(fs_, t) THEN "Skipped" ELSE "Pending"

\* A task is checked when it is the requested one or when a task that
\* requires it was found incomplete.
Checkable(c) ==
    /\ InBuild(c)
    /\ status[c] = "Unresolved"
    /\ \/ c = req.cls
       \/ \E d \in Classes : InBuild(d) /\ status[d] = "Pending" /\ c \in Deps(d)

Check(c) ==
    /\ ~BuildOver
    /\ Checkable(c)
    /\ status' = [status EXCEPT ![c] = CheckResult(fs, TaskFor(c))]
    /\ UNCHANGED <<remote, fs, req, ran, fs0, prev, builds, last, ended, parse>>

\* Mutant of Startable: a body starts as soon as its own check is over
Startable_unordered(c) == InBuild(c) /\ status[c] = "Pending"

\* A body may start once every task it requires is Skipped or Done
Startable(c) ==
    /\ InBuild(c)
    /\ status[c] = "Pending"
    /\ \A d \in Deps(c) : status[d] \in {"Skipped", "Done"}

Start(c) ==
    /\ ~BuildOver
    /\ Startable(c)
    /\ status' = [status EXCEPT ![c] = "Running"]
    /\ ran' = Append(ran, c)
    /\ UNCHANGED <<remote, fs, req, fs0, prev, builds, last, ended, parse>>

\* The end of a body: the filesystem it leaves and how it ended
Finish(t, inp, r) ==
    /\ fs' = r.fs
    /\ last' = [task |-> t, pre |-> fs, inp |-> inp, outcome |-> r.outcome, err |-> r.err]
    /\ ended' = IF r.outcome = "Done" THEN ended \cup {t} ELSE ended

Running(c) == ~BuildOver /\ InBuild(c) /\ status[c] = "Running"

RunDownloadDataset ==
    /\ Running("DownloadDataset")
    /\ \E ok \in BOOLEAN :
          LET t == TaskFor("DownloadDataset")
              r == DownloadDataset_run(fs, t, remote, ok)
          IN  /\ Finish(t, NoInput, r)
              /\ status' = [status EXCEPT !["DownloadDataset"] = r.outcome]
    /\ UNCHANGED <<remote, req, ran, fs0, prev, builds, parse>>

RunExtractAndProcessFiles ==
    /\ Running("ExtractAndProcessFiles")
    /\ \E fail \in ExtractFailures(MaxMembers) :
          LET t == TaskFor("ExtractAndProcessFiles")
              r == ExtractAndProcessFiles_run(fs, t, fail)
          IN  /\ Finish(t, [NoInput EXCEPT !.at = fail.at, !.how = fail.how], r)
              /\ status' = [status EXCEPT !["ExtractAndProcessFiles"] = r.outcome]
    /\ UNCHANGED <<remote, req, ran, fs0, prev, builds, parse>>

\* The orders and failure positions a TrimProbesTable run can meet (when no
\* file fails the order has no effect and one order stands for all)
TrimInputs(files) ==
    {[NoInput EXCEPT !.order = CHOOSE o \in Perms(files) : TRUE]}
        \cup {[NoInput EXCEPT !.order = o, !.failAt = k] :
                 o \in Perms(files), k \in 1..Cardinality(files)}

RunTrimProbesTable ==
    /\ Running("TrimProbesTable")
    /\ LET t == TaskFor("TrimProbesTable") IN
       \E inp \in TrimInputs(ProbesFiles(fs, t)) :
          LET r == TrimProbesTable_run(fs, t, inp.order, inp.failAt)
          IN  /\ Finish(t, inp, r)
              /\ status' = [status EXCEPT !["TrimProbesTable"] = r.outcome]
    /\ UNCHANGED <<remote, req, ran, fs0, prev, builds, parse>>

FailingSets(fs_, t) ==
    {F \in SUBSET Deletable(fs_, t) : Cardinality(F) <= MaxFailures}

RunDeleteOriginalData ==
    /\ Running("DeleteOriginalData")
    /\ LET t == TaskFor("DeleteOriginalData") IN
       \E failing \in FailingSets(fs, t) :
          LET r == DeleteOriginalData_run(fs, t, failing)
          IN  /\ Finish(t, [NoInput EXCEPT !.failing = failing], r)
              /\ status' = [status EXCEPT !["DeleteOriginalData"] = r.outcome]
    /\ UNCHANGED <<remote, req, ran, fs0, prev, builds, parse>>

Next ==
    \/ \E t \in Requestable : StartBuild(t)
    \/ \E c \in Classes : Check(c)
    \/ \E c \in Classes : Start(c)
    \/ RunDownloadDataset
    \/ RunExtractAndProcessFiles
    \/ RunTrimProbesTable
    \/ RunDeleteOriginalData

Spec == Init /\ [][Next]_vars

----------------------------------------------------------------------------
\* The run() bodies called directly on a filesystem, outside any build (as
\* a test of one task does): no completeness check and no dependency check
\* comes before the body.

\* Bound: the number of direct calls in one behaviour.
MaxCalls == 3

\* The filesystem after a successful fetch with the default directory
Fetched(content) ==
    DownloadDataset_run(EmptyFS, DownloadDataset(DefaultDownloadDir), content, TRUE).fs

InitDirect ==
    /\ remote \in Archives
    /\ fs \in {EmptyFS, Fetched(remote)}
    /\ req = NoTask
    /\ status = Unresolved
    /\ ran = << >>
    /\ fs0 = fs
    /\ prev = [req |-> NoTask, status |-> Unresolved]
    /\ builds = 0
    /\ last = NoRun
    /\ ended = {}
    /\ parse = NoParse

Called == builds < MaxCalls /\ builds' = builds + 1

CallExtractAndProcessFiles ==
    /\ Called
    /\ \E t \in Requestable, fail \in ExtractFailures(MaxMembers) :
          /\ t.cls = "ExtractAndProcessFiles"
          /\ Finish(t, [NoInput EXCEPT !.at = fail.at, !.how = fail.how],
                    ExtractAndProcessFiles_run(fs, t, fail))
    /\ UNCHANGED <<remote, req, status, ran, fs0, prev, parse>>

CallTrimProbesTable ==
    /\ Called
    /\ \E t \in Requestable :
          /\ t.cls = "TrimProbesTable"
          /\ \E inp \in TrimInputs(ProbesFiles(fs, t)) :
                Finish(t, inp, TrimProbesTable_run(fs, t, inp.order, inp.failAt))
    /\ UNCHANGED <<remote, req, status, ran, fs0, prev, parse>>

CallDeleteOriginalData ==
    /\ Called
    /\ \E t \in Requestable :
          /\ t.cls = "DeleteOriginalData"
          /\ \E failing \in FailingSets(fs, t) :
                Finish(t, [NoInput EXCEPT !.failing = failing],
                       DeleteOriginalData_run(fs, t, failing))
    /\ UNCHANGED <<remote, req, status, ran, fs0, prev, parse>>

NextDirect ==
    \/ CallExtractAndProcessFiles
    \/ CallTrimProbesTable
    \/ CallDeleteOriginalData

SpecDirect == InitDirect /\ [][NextDirect]_vars

----------------------------------------------------------------------------
\* Properties of the builds

Range(s) == {s[i] : i \in DOMAIN s}

\* The order fetch, extract+parse, trim, clean
Rank(c) ==
    CASE c = "DownloadDataset" -> 1
      [] c = "ExtractAndProcessFiles" -> 2
      [] c = "TrimProbesTable" -> 3
      [] c = "DeleteOriginalData" -> 4

\* C1: in every build the bodies start in the order fetch, extract+parse,
\* trim, clean; a body has started only when every task its task requires
\* is Skipped or Done; and once a task has Failed, the failed body is the
\* last one started in the build (no downstream body runs).
C1_OrderedBuild ==
    /\ \A i, j \in DOMAIN ran : i < j => Rank(ran[i]) < Rank(ran[j])
    /\ \A c \in Range(ran) : \A d \in Deps(c) : status[d] \in {"Skipped", "Done"}
    /\ \A c \in Classes : status[c] = "Failed" => (ran # << >> /\ Last(ran) = c)

\* A build of the clean stage in which the fetch ran, the extraction failed
\* and neither trim nor clean started.
C1_Witness ==
    /\ req.cls = "DeleteOriginalData"
    /\ ran = <<"DownloadDataset", "ExtractAndProcessFiles">>
    /\ status["DownloadDataset"] = "Done"
    /\ status["ExtractAndProcessFiles"] = "Failed"
    /\ status["TrimProbesTable"] = "Pending"
    /\ status["DeleteOriginalData"] = "Pending"

\* C2: when the Output Target of the requested task exists as the build
\* starts, the task is Skipped, no body starts, no upstream task is even
\* checked and the filesystem stays as it was.
C2_RequestedComplete ==
    (req # NoTask /\ Complete(fs0, req)) =>
        /\ ran = << >>
        /\ status[req.cls] \in {"Unresolved", "Skipped"}
        /\ \A c \in Classes \ {req.cls} : status[c] = "Unresolved"
        /\ fs = fs0

\* The trim stage requested and Skipped while the extraction directory,
\* the output of the task upstream of it, no longer exists.
C2_Witness ==
    /\ req.cls = "TrimProbesTable"
    /\ status["TrimProbesTable"] = "Skipped"
    /\ ~Exists(fs, Output(TrimProbesTable_requires(req)))
    /\ Exists(fs, Output(req))

\* C3 (as claimed): when the build before asked for the same task and that
\* task's body ran to its end in it, this build does not start the body
\* again and leaves the filesystem as it found it.
C3_SecondBuildSkips ==
    (req # NoTask /\ prev.req = req /\ prev.status[req.cls] = "Done") =>
        (req.cls \notin Range(ran) /\ fs = fs0)

\* C4 (as claimed): after a DeleteOriginalData body that reached its end,
\* the cleanup marker exists.
C4_MarkerWritten ==
    (last.task.cls = "DeleteOriginalData" /\ last.outcome = "Done") =>
        Exists(fs, DeleteOriginalData_output(last.task))

\* The task of class c in the build before
PrevTasks == Closure(prev.req)

\* C5 (as claimed): when the extraction Failed in the build before, the
\* build that follows and needs the same extraction task does not skip it.
C5_RerunAfterFailure ==
    (/\ req # NoTask
     /\ prev.status["ExtractAndProcessFiles"] = "Failed"
     /\ InBuild("ExtractAndProcessFiles")
     /\ TaskFor("ExtractAndProcessFiles") \in PrevTasks)
        => status["ExtractAndProcessFiles"] # "Skipped"

----------------------------------------------------------------------------
\* Properties of the run() bodies, stated on the last run that ended:
\* last.pre is the filesystem it started on, fs the one it left.

LastRan(c) == last.task.cls = c

\* The path keeps what it held (or stays absent)
Untouched(pre, post, p) ==
    IF p \in DOMAIN pre.files
    THEN p \in DOMAIN post.files /\ post.files[p] = pre.files[p]
    ELSE p \notin DOMAIN post.files

\* C6 (as claimed): an ExtractAndProcessFiles run that starts with no
\* archive at the archive path fails with MissingInput and leaves the
\* filesystem exactly as it found it.
C6_MissingInputWritesNothing ==
    (/\ LastRan("ExtractAndProcessFiles")
     /\ ~Exists(last.pre, DownloadDataset_output(ExtractAndProcessFiles_requires(last.task))))
        => (last.outcome = "Failed" /\ last.err = "MissingInput" /\ fs = last.pre)

\* The discovered file whose processing failed in the last trim run
TrimFailed == last.inp.order[last.inp.failAt]

C8_NoInputFound ==
    (LastRan("TrimProbesTable") /\ ProbesFiles(last.pre, last.task) = {}) =>
        /\ last.outcome = "Failed"
        /\ last.err = "NoInputFound"
        /\ fs.files = last.pre.files
        /\ ~Complete(fs, last.task)

\* A trim run on an existing processed directory that holds extracted
\* files but no Probes table.
C8_Witness ==
    /\ LastRan("TrimProbesTable")
    /\ WalkFiles(last.pre, last.task.processed_data_dir) # {}
    /\ ProbesFiles(last.pre, last.task) = {}
    /\ last.err = "NoInputFound"
    /\ status["TrimProbesTable"] = "Failed"

\* The extraction directory held something when the last run started
Populated ==
    WalkDirs(last.pre, last.task.processed_data_dir)
        \cup WalkFiles(last.pre, last.task.processed_data_dir) # {}

\* C9 (as claimed): after a DeleteOriginalData run on a populated
\* extraction directory, the directory is gone or holds no file that
\* existed before the run.
C9_NoOldFileLeft ==
    (LastRan("DeleteOriginalData") /\ Populated) =>
        \/ ~Exists(fs, last.task.processed_data_dir)
        \/ WalkFiles(fs, last.task.processed_data_dir) \cap DOMAIN last.pre.files = {}

\* C9 (amended): after a DeleteOriginalData run on a populated extraction
\* directory, the directory is gone, or every file left in it is a file
\* whose deletion failed and every directory left in it is one whose
\* removal failed or that is not empty; the directory itself remains only
\* if its removal failed or it is not empty.
C9_OnlyFailedDeletionsLeft ==
    (LastRan("DeleteOriginalData") /\ Populated) =>
        \/ ~Exists(fs, last.task.processed_data_dir)
        \/ /\ WalkFiles(fs, last.task.processed_data_dir) \subseteq last.inp.failing
           /\ \A d \in WalkDirs(fs, last.task.processed_data_dir) \cup {last.task.processed_data_dir} :
                 d \in last.inp.failing \/ HasChild(fs, d)
           /\ fs.files = [f \in DOMAIN fs.files |-> last.pre.files[f]]

\* A clean run in which the deletion of one extracted file failed while
\* another file was deleted: the failing file is still there.
C9_Witness ==
    /\ LastRan("DeleteOriginalData")
    /\ Populated
    /\ \E f \in WalkFiles(fs, last.task.processed_data_dir) : f \in last.inp.failing
    /\ WalkFiles(fs, last.task.processed_data_dir) # WalkFiles(last.pre, last.task.processed_data_dir)

\* C10: a DeleteOriginalData run always reaches its end: whatever deletions
\* fail, its outcome is Done, the clean task is never Failed and the build
\* that asked for it ends with it Done.
C10_CleanNeverFails ==
    /\ status["DeleteOriginalData"] # "Failed"
    /\ LastRan("DeleteOriginalData") =>
          (last.outcome = "Done" /\ last.err = "" /\ status["DeleteOriginalData"] = "Done")

\* A clean run in which a file deletion and a directory removal both
\* failed, ended Done.
C10_Witness ==
    /\ LastRan("DeleteOriginalData")
    /\ \E f \in last.inp.failing : IsFile(last.pre, f)
    /\ \E d \in last.inp.failing : IsDir(last.pre, d)
    /\ status["DeleteOriginalData"] = "Done"
    /\ BuildOver

\* ---------------------------------------------------------------------
\* The column drop of TrimProbesTable.run, on the header of one table
\* ---------------------------------------------------------------------

\* The longest header line drawn
MaxCols == 3

\* The variables of the pipeline, which the table-level steps leave alone
pipeline == <<remote, fs, req, status, ran, fs0, prev, builds, last, ended>>

\* The pipeline before anything has been built
AtRest ==
    /\ remote = [i \in 1..MaxMembers |-> "other"]
    /\ fs = EmptyFS
    /\ req = NoTask
    /\ status = Unresolved
    /\ ran = << >>
    /\ fs0 = EmptyFS
    /\ prev = [req |-> NoTask, status |-> Unresolved]
    /\ builds = 0
    /\ last = NoRun
    /\ ended = {}

\* The seven column names TrimProbesTable.run removes
columns_to_remove ==
    {"Definition", "Ontology_Component", "Ontology_Process", "Ontology_Function",
     "Synonyms", "Obsolete_Probe_Id", "Probe_Sequence"}

\* The field names a header line is drawn from: the seven and two others
ColumnNames == columns_to_remove \cup {"ID_REF", "Symbol"}

\* A header line is the sequence of its tab-separated fields; a section
\* whose table was saved had at least one
Headers == UNION {[1..n -> ColumnNames] : n \in 1..MaxCols}

\* pd.read_csv(sep='\t', header='infer'): the first line names the columns;
\* the k-th repetition of a name gets the suffix .k
read_csv_columns(line) ==
    [i \in 1..Len(line) |->
        LET k == Cardinality({j \in 1..(i - 1) : line[j] = line[i]})
        IN  IF k = 0 THEN line[i] ELSE line[i] \o "." \o ToString(k)]

\* DataFrame.to_csv(sep='\t', index=False): the header line holds the
\* column labels, in order
to_csv_header(columns) == [i \in 1..Len(columns) |-> columns[i]]

\* DataFrame.drop(columns=labels) with errors='raise': a label that is not
\* a column raises
drop_raise(columns, labels) ==
    IF \E l \in labels : \A i \in 1..Len(columns) : columns[i] # l
    THEN [columns |-> columns, err |-> "KeyError"]
    ELSE [columns |-> SelectSeq(columns, LAMBDA c : c \notin labels), err |-> ""]

\* DataFrame.drop(columns=labels, errors='ignore'): the columns whose label
\* is listed go, the others stay in place
drop(columns, labels) ==
    [columns |-> SelectSeq(columns, LAMBDA c : c \notin labels), err |-> ""]

\* A section header as the decompressed file holds it
InitTrim ==
    /\ AtRest
    /\ parse \in {[pc |-> "section", header |-> h, table |-> << >>,
                   trimmed |-> << >>, err |-> ""] : h \in Headers}

\* process_file saves the section as <stem>_Probes.tsv
SaveTable ==
    /\ parse.pc = "section"
    /\ parse' = [parse EXCEPT !.pc = "table",
                              !.table = to_csv_header(read_csv_columns(parse.header))]
    /\ UNCHANGED pipeline

\* TrimProbesTable.run reads the table, drops the columns and saves
\* <stem>_trimmed_Probes.tsv
TrimTable ==
    /\ parse.pc = "table"
    /\ LET probes_df == read_csv_columns(parse.table)
           trimmed_probes_df == drop(probes_df, columns_to_remove)
       IN  parse' = IF trimmed_probes_df.err = ""
                    THEN [parse EXCEPT !.pc = "trimmed",
                                       !.trimmed = to_csv_header(trimmed_probes_df.columns)]
                    ELSE [parse EXCEPT !.pc = "failed", !.err = trimmed_probes_df.err]
    /\ UNCHANGED pipeline

NextTrim ==
    \/ SaveTable
    \/ TrimTable

SpecTrim == InitTrim /\ [][NextTrim]_vars

\* C11: for every _Probes.tsv table, whichever of the seven fixed names its
\* header holds, the trim does not fail and the header of the trimmed table
\* holds none of the seven and holds every other column of the source
\* header, in the source order.
C11_TrimmedHeader ==
    parse.pc \in {"trimmed", "failed"} =>
        LET kept == {i \in 1..Len(parse.table) : parse.table[i] \notin columns_to_remove}
        IN  /\ parse.pc = "trimmed"
            /\ \A i \in 1..Len(parse.trimmed) : parse.trimmed[i] \notin columns_to_remove
            /\ Len(parse.trimmed) = Cardinality(kept)
            /\ \A i \in kept :
                  parse.trimmed[Cardinality({j \in kept : j <= i})] = parse.table[i]

\* A table trimmed whose header held one of the seven names between two
\* other columns, and not all seven.
C11_Witness ==
    /\ parse.pc = "trimmed"
    /\ Len(parse.table) = 3
    /\ parse.table[2] \in columns_to_remove
    /\ parse.table[1] = "Symbol"
    /\ parse.table[3] = "ID_REF"
    /\ parse.trimmed = <<"Symbol", "ID_REF">>

\* ---------------------------------------------------------------------
\* process_file, line by line, on the text of one decompressed member
\* ---------------------------------------------------------------------

\* The longest text drawn, in lines
MaxLines == 4

\* A line is the sequence of its pieces: brackets, names, tabs, the newline
SectionLines ==
    { <<"[", "Heading", "]", "\n">>,
      <<"[", "Probes", "]", "\n">>,
      <<"[", "Probes", "\n">>,
      <<"[", "[", "Probes", "]", "]", "\n">>,
      <<"[", "]", "\n">> }

ContentLines ==
    { <<"ID_REF", "\t", "Symbol", "\n">>,
      <<"1", "\t", "x", "\n">> }

Texts == UNION {[1..n -> SectionLines \cup ContentLines] : n \in 0..MaxLines}

\* str.startswith
startswith(line, piece) == Len(line) > 0 /\ line[1] = piece

\* str.strip(chars): every leading and every trailing piece in chars goes
RECURSIVE lstrip(_, _)
lstrip(line, chars) ==
    IF Len(line) > 0 /\ line[1] \in chars THEN lstrip(Tail(line), chars) ELSE line

RECURSIVE rstrip(_, _)
rstrip(line, chars) ==
    IF Len(line) > 0 /\ line[Len(line)] \in chars
    THEN rstrip(SubSeq(line, 1, Len(line) - 1), chars)
    ELSE line

strip(line, chars) == rstrip(lstrip(line, chars), chars)

\* write_key before the first section line (None), and the key of the
\* line [] (the empty string): both count as false in `if write_key`
NoKey == << >>

\* The fields of a content line: what the tabs separate, newline dropped
Fields(line) == SelectSeq(line, LAMBDA c : c \notin {"\t", "\n"})

\* header = None if write_key == 'Heading' else 'infer', without the test
header_for_infer(write_key) == "infer"

\* header = None if write_key == 'Heading' else 'infer'
header_for(write_key) == IF write_key = <<"Heading">> THEN "None" ELSE "infer"

\* pd.read_csv(fio, sep='\t', header=header) that returns an empty frame
\* where pandas raises
read_csv_lenient(fio, header) ==
    IF Len(fio) = 0
    THEN [columns |-> << >>, rows |-> << >>, err |-> ""]
    ELSE IF header = "infer"
    THEN [columns |-> read_csv_columns(Fields(fio[1])),
          rows |-> [i \in 1..(Len(fio) - 1) |-> Fields(fio[i + 1])],
          err |-> ""]
    ELSE [columns |-> [i \in 1..Len(Fields(fio[1])) |-> ToString(i - 1)],
          rows |-> [i \in 1..Len(fio) |-> Fields(fio[i])],
          err |-> ""]

\* pd.read_csv(fio, sep='\t', header=header): no line at all raises
\* EmptyDataError; with 'infer' the first line names the columns, with None
\* the columns are numbered and every line is a row
read_csv(fio, header) ==
    IF Len(fio) = 0
    THEN [columns |-> << >>, rows |-> << >>, err |-> "EmptyDataError"]
    ELSE IF header = "infer"
    THEN [columns |-> read_csv_columns(Fields(fio[1])),
          rows |-> [i \in 1..(Len(fio) - 1) |-> Fields(fio[i + 1])],
          err |-> ""]
    ELSE [columns |-> [i \in 1..Len(Fields(fio[1])) |-> ToString(i - 1)],
          rows |-> [i \in 1..Len(fio) |-> Fields(fio[i])],
          err |-> ""]

\* df.to_csv(sep='\t', index=False): the header line, then the rows
to_csv(df) == <<to_csv_header(df.columns)>> \o df.rows

\* dfs[key] = df
SetItem(dfs, key, df) ==
    [k \in DOMAIN dfs \cup {key} |-> IF k = key THEN df ELSE dfs[k]]

\* The text of one member, nothing read yet: write_key = None, fio empty
InitParse ==
    /\ AtRest
    /\ parse \in {[pc |-> "lines", file |-> text, i |-> 1, write_key |-> NoKey,
                   fio |-> << >>, dfs |-> << >>, saved |-> << >>, err |-> "",
                   did |-> << >>, finalized |-> << >>] : text \in Texts}

\* One turn of the loop over f.readlines()
ReadLine ==
    /\ parse.pc = "lines"
    /\ parse.i <= Len(parse.file)
    /\ LET line == parse.file[parse.i]
           write_key == parse.write_key
           df == read_csv(parse.fio, header_for(write_key))
           end == [key |-> write_key, payload |-> parse.fio, at |-> "section", df |-> df]
           key == strip(line, {"[", "]", "\n"})
       IN  parse' =
             IF startswith(line, "[")
             THEN IF write_key # NoKey /\ df.err # ""
                  THEN [parse EXCEPT !.pc = "failed", !.err = df.err,
                                     !.finalized = Append(@, end)]
                  ELSE [parse EXCEPT
                          !.dfs = IF write_key # NoKey THEN SetItem(@, write_key, df) ELSE @,
                          !.finalized = IF write_key # NoKey THEN Append(@, end) ELSE @,
                          !.fio = << >>,
                          !.write_key = key,
                          !.i = @ + 1,
                          !.did = Append(@, [kind |-> "section", key |-> key])]
             ELSE IF write_key # NoKey
             THEN [parse EXCEPT !.fio = Append(@, line), !.i = @ + 1,
                                !.did = Append(@, [kind |-> "append", key |-> write_key])]
             ELSE [parse EXCEPT !.i = @ + 1,
                                !.did = Append(@, [kind |-> "discard", key |-> write_key])]
    /\ UNCHANGED pipeline

\* After the last line: the pending key is finalized, always with header
\* 'infer'
EndOfFile ==
    /\ parse.pc = "lines"
    /\ parse.i > Len(parse.file)
    /\ LET write_key == parse.write_key
           df == read_csv(parse.fio, "infer")
           end == [key |-> write_key, payload |-> parse.fio, at |-> "eof", df |-> df]
       IN  parse' =
             IF write_key = NoKey
             THEN [parse EXCEPT !.pc = "tables"]
             ELSE IF df.err # ""
             THEN [parse EXCEPT !.pc = "failed", !.err = df.err,
                                !.finalized = Append(@, end)]
             ELSE [parse EXCEPT !.pc = "tables",
                                !.dfs = SetItem(@, write_key, df),
                                !.finalized = Append(@, end)]
    /\ UNCHANGED pipeline

\* Every table of dfs is written to <stem>_<key>.tsv
SaveTables ==
    /\ parse.pc = "tables"
    /\ parse' = [parse EXCEPT !.pc = "saved",
                              !.saved = [k \in DOMAIN parse.dfs |-> to_csv(parse.dfs[k])]]
    /\ UNCHANGED pipeline

NextParse ==
    \/ ReadLine
    \/ EndOfFile
    \/ SaveTables

SpecParse == InitParse /\ [][NextParse]_vars

\* A line of the form [...] once its trailing newline is trimmed, and the
\* text between its two brackets
BracketForm(line) ==
    LET l == rstrip(line, {"\n"})
    IN  Len(l) >= 2 /\ l[1] = "[" /\ l[Len(l)] = "]"

Between(line) ==
    LET l == rstrip(line, {"\n"})
    IN  SubSeq(l, 2, Len(l) - 1)

\* Every line of the text that begins with [ is a section line [key] with
\* a key that holds a name and no bracket
WellFormed ==
    \A j \in 1..Len(parse.file) :
        startswith(parse.file[j], "[") =>
            /\ BracketForm(parse.file[j])
            /\ Between(parse.file[j]) # << >>
            /\ \A i \in 1..Len(Between(parse.file[j])) : Between(parse.file[j])[i] \notin {"[", "]"}

\* The section lines of the text with key k
Occurrences(k) ==
    {j \in 1..Len(parse.file) : BracketForm(parse.file[j]) /\ Between(parse.file[j]) = k}

\* The content lines that follow line j up to the next section line or the
\* end of the text, and whether the end of the text closes them
NextSection(j) ==
    LET later == {m \in (j + 1)..Len(parse.file) : BracketForm(parse.file[m])}
    IN  IF later = {} THEN Len(parse.file) + 1
        ELSE CHOOSE m \in later : \A n \in later : m <= n

PayloadAfter(j) == SubSeq(parse.file, j + 1, NextSection(j) - 1)

\* The table a section gives when an empty section gives an empty table
TableOf(k, j) ==
    read_csv_lenient(PayloadAfter(j),
                     IF NextSection(j) > Len(parse.file) THEN "infer" ELSE header_for(k))

\* C12 (as claimed): when a section key occurs more than once in a text
\* whose section lines are all of the form [key], process_file ends with exactly one table saved for that key, holding the
\* data of the last occurrence, whatever sections lie in between.
C12_LastOccurrenceWins ==
    (WellFormed /\ parse.pc \in {"saved", "failed"}) =>
        \A j \in 1..Len(parse.file) :
            LET k == Between(parse.file[j])
                last_j == CHOOSE m \in Occurrences(k) : \A n \in Occurrences(k) : n <= m
            IN  (BracketForm(parse.file[j]) /\ Cardinality(Occurrences(k)) > 1) =>
                    /\ parse.pc = "saved"
                    /\ k \in DOMAIN parse.saved
                    /\ parse.saved[k] = to_csv(TableOf(k, last_j))

\* C13: a section with content that is finalized has its first content
\* line read as the header row and the other lines as rows, except a
\* section with key Heading finalized by a following section line, whose
\* lines are all rows; the section finalized at the end of the text has its
\* first line read as header whatever its key.
C13_HeaderRow ==
    \A j \in 1..Len(parse.finalized) :
        LET e == parse.finalized[j]
            n == Len(e.payload)
        IN  n > 0 =>
              /\ e.df.err = ""
              /\ IF e.key = <<"Heading">> /\ e.at = "section"
                 THEN /\ Len(e.df.rows) = n
                      /\ \A i \in 1..n : e.df.rows[i] = Fields(e.payload[i])
                 ELSE /\ e.df.columns = Fields(e.payload[1])
                      /\ Len(e.df.rows) = n - 1
                      /\ \A i \in 1..(n - 1) : e.df.rows[i] = Fields(e.payload[i + 1])

\* A text with two Heading sections with content, the first closed by a
\* section line and the second by the end of the text, whose tables were
\* saved.
C13_Witness ==
    /\ parse.pc = "saved"
    /\ Len(parse.finalized) = 2
    /\ parse.finalized[1].key = <<"Heading">>
    /\ parse.finalized[1].at = "section"
    /\ Len(parse.finalized[1].df.rows) = 1
    /\ parse.finalized[2].key = <<"Heading">>
    /\ parse.finalized[2].at = "eof"
    /\ parse.finalized[2].df.rows = << >>
    /\ parse.finalized[2].df.columns = Fields(parse.finalized[2].payload[1])

\* C14 (as claimed): a line starts a new section if and only if it has the
\* form [...], the new key is the text between the two brackets, every other
\* line after a key was set is appended to the payload and the lines before
\* the first key are discarded.
C14_SectionForm ==
    \A j \in 1..Len(parse.did) :
        LET line == parse.file[j]
            keySet == \E m \in 1..(j - 1) : BracketForm(parse.file[m])
        IN  /\ parse.did[j].kind = "section" <=> BracketForm(line)
            /\ BracketForm(line) => parse.did[j].key = Between(line)
            /\ ~BracketForm(line) =>
                  parse.did[j].kind = IF keySet THEN "append" ELSE "discard"

\* C15 (as claimed): a section with zero data rows, wherever it sits, is
\* finalized without failure into an empty table: its header only, or no
\* header and no rows when it has no line at all.
C15_EmptySectionParsed ==
    \A j \in 1..Len(parse.finalized) :
        LET e == parse.finalized[j]
            headerOnly == Len(e.payload) = 1 /\ ~(e.key = <<"Heading">> /\ e.at = "section")
        IN  (e.payload = << >> \/ headerOnly) =>
              /\ e.df.err = ""
              /\ parse.pc # "failed"
              /\ e.df.rows = << >>
              /\ headerOnly => e.df.columns = Fields(e.payload[1])

\* The place of path p in the attempts a: 0 when it is never attempted
Place(a, p) ==
    IF \E i \in 1..Len(a) : p \in a[i]
    THEN CHOOSE i \in 1..Len(a) : p \in a[i]
    ELSE 0

\* The deletions attempted come in the order files, sub-directories with a
\* child before its parent, root last, once each
InOrder(a, pre, root) ==
    /\ Len(a) >= 2
    /\ a[Len(a)] = {root}
    /\ \A i, j \in 1..Len(a) : i # j => a[i] \cap a[j] = {}
    /\ \A f \in WalkFiles(pre, root) : Place(a, f) = 1
    /\ \A d \in WalkDirs(pre, root) : Place(a, d) > 1 /\ Place(a, d) < Len(a)
    /\ \A d, c \in WalkDirs(pre, root) : IsUnder(d, c) => Place(a, c) < Place(a, d)

\* C16 (as claimed): every DeleteOriginalData run on an existing extraction
\* directory, an empty one included, attempts the files, then the
\* sub-directories bottom-up, then the root; when no deletion fails the
\* directory does not exist after the run.
C16_RootAlwaysRemoved ==
    (LastRan("DeleteOriginalData") /\ IsDir(last.pre, last.task.processed_data_dir)) =>
        /\ InOrder(DeleteOriginalData_attempts(last.pre, last.task),
                   last.pre, last.task.processed_data_dir)
        /\ last.inp.failing = {} => ~Exists(fs, last.task.processed_data_dir)

\* C16 (amended): a DeleteOriginalData run on an extraction directory that
\* holds something attempts the files, then the sub-directories bottom-up,
\* then the root, and with no failing deletion the directory does not exist
\* afterwards; a run on an empty or missing extraction directory attempts
\* nothing and leaves the filesystem as it was.
C16_OrderedUnlessEmpty ==
    LastRan("DeleteOriginalData") =>
        LET root == last.task.processed_data_dir
            a == DeleteOriginalData_attempts(last.pre, last.task)
        IN  IF Populated
            THEN /\ InOrder(a, last.pre, root)
                 /\ \A p \in last.pre.dirs \cup DOMAIN last.pre.files :
                       ~Exists(fs, p) => Place(a, p) > 0
                 /\ last.inp.failing = {} => ~Exists(fs, root)
            ELSE a = << >> /\ fs = last.pre

\* A clean run on an extraction directory holding files and
\* sub-directories in which nothing failed: the directory is gone.
C16_Witness ==
    /\ LastRan("DeleteOriginalData")
    /\ Populated
    /\ WalkDirs(last.pre, last.task.processed_data_dir) # {}
    /\ WalkFiles(last.pre, last.task.processed_data_dir) # {}
    /\ last.inp.failing = {}
    /\ ~Exists(fs, last.task.processed_data_dir)

\* C17 (as claimed): in every state reached by any sequence of builds, the
\* Output Target of a task exists only if the body of that task has run to
\* its end at least once; a run that failed leaves its task incomplete.
C17_CompleteOnlyAfterEnd ==
    /\ \A t \in Requestable : Complete(fs, t) => t \in ended
    /\ (last.task # NoTask /\ last.outcome = "Failed" /\ ~Complete(last.pre, last.task)) =>
            ~Complete(fs, last.task)

\* The trim task with every parameter at its default
DefaultTrim == TrimProbesTable(DefaultDownloadDir, DefaultProcessedDir, DefaultTrimmedDir)

\* Where the trimmed table of the archive member `member` is written when
\* every stage works with the default directories
TrimmedTableOf(member) ==
    LET member_name == SplitExtRoot(member.name)
        table == Join(Join(DefaultProcessedDir, member_name),
                      SplitExtRoot(member_name) \o <<"_Probes", ".tsv">>)
    IN  TrimmedPath(DefaultTrim, table)

\* C18 (as claimed): after any sequence of builds with the default
\* directories, when the trim marker Probes_trimmed.tsv exists, a trimmed
\* table exists for every member of the archive whose text holds a Probes
\* section.
C18_MarkerCoversArchive ==
    Complete(fs, DefaultTrim) =>
        \A i \in 1..Len(remote) :
            LET member == GetMembers(remote)[i]
            IN  (/\ member.isfile
                 /\ EndsWith(member.name, <<".txt", ".gz">>)
                 /\ "Probes" \in SectionKeys(member.text)) =>
                    IsFile(fs, TrimmedTableOf(member))

\* ---------------------------------------------------------------------
\* Builds asked for with directory parameters other than the defaults
\* ---------------------------------------------------------------------

\* The values given to --download-dir, --output-dir / --processed-data-dir
\* and --output-dir on the command line
ConfigDownloadDirs == {DefaultDownloadDir, << <<"dl">> >>}
ConfigProcessedDirs == {DefaultProcessedDir, DefaultTrimmedDir}
ConfigTrimmedDirs == {DefaultTrimmedDir, << <<"out">> >>}

\* The tasks a build can be asked for with these values
Configured ==
    {DownloadDataset(d) : d \in ConfigDownloadDirs}
    \cup {ExtractAndProcessFiles(d, o) : d \in ConfigDownloadDirs, o \in ConfigProcessedDirs}
    \cup {TrimProbesTable(d, p, o) :
             d \in ConfigDownloadDirs, p \in ConfigProcessedDirs, o \in ConfigTrimmedDirs}
    \cup {DeleteOriginalData(d, p, o) :
             d \in ConfigDownloadDirs, p \in ConfigProcessedDirs, o \in ConfigTrimmedDirs}

\* An empty workspace and an archive whose members all hold a Probes section
InitConfig ==
    /\ Init
    /\ remote = [i \in 1..MaxMembers |-> "probes"]

NextConfig ==
    \/ \E t \in Configured : StartBuild(t)
    \/ \E c \in Classes : Check(c)
    \/ \E c \in Classes : Start(c)
    \/ RunDownloadDataset
    \/ RunExtractAndProcessFiles
    \/ RunTrimProbesTable
    \/ RunDeleteOriginalData

SpecConfig == InitConfig /\ [][NextConfig]_vars

\* The task of class c that the build works with
Upstream(c) == CHOOSE t \in Closure(req) : t.cls = c

\* C19 (as claimed): whatever directories the requested task is given, a
\* body that ran read the place its upstream task wrote: the extraction
\* opened the archive the fetch of this build writes, the trim scanned the
\* directory the extraction of this build extracts into, and the clean
\* emptied that same directory.
C19_ReadsWhatUpstreamWrote ==
    CASE LastRan("ExtractAndProcessFiles") ->
            DownloadDataset_output(ExtractAndProcessFiles_requires(last.task))
                = Join(Upstream("DownloadDataset").download_dir, <<dataset_id, "_RAW", ".tar">>)
      [] LastRan("TrimProbesTable") ->
            last.task.processed_data_dir = Upstream("ExtractAndProcessFiles").output_dir
      [] LastRan("DeleteOriginalData") ->
            /\ last.task.processed_data_dir = Upstream("ExtractAndProcessFiles").output_dir
            /\ last.task.processed_data_dir = Upstream("TrimProbesTable").processed_data_dir
      [] OTHER -> TRUE

\* The directory parameters of task t name three directories none of which
\* is, or lies in, another
PairwiseDisjoint(t) ==
    \A a, b \in {<<1, t.download_dir>>, <<2, t.processed_data_dir>>, <<3, t.output_dir>>} :
        a[1] # b[1] => ~IsPrefix(a[2], b[2])

\* C20 (as claimed): when the download, processed and trimmed directories
\* of a DeleteOriginalData run are pairwise disjoint, the run leaves the
\* fetched archive, every trimmed table and the trim marker as they were,
\* whichever deletions fail.
C20_CleanFrame ==
    (LastRan("DeleteOriginalData") /\ PairwiseDisjoint(last.task)) =>
        /\ \A p \in DOMAIN last.pre.files :
              ~IsUnder(last.task.processed_data_dir, p) => Untouched(last.pre, fs, p)
        /\ Untouched(last.pre, fs, DownloadDataset_output(Upstream("DownloadDataset")))
        /\ \A p \in DOMAIN last.pre.files :
              IsUnder(Upstream("TrimProbesTable").output_dir, p) => Untouched(last.pre, fs, p)

====
